---- MODULE Spec2Model ----
(***************************************************************************)
(* State-machine model of the STM32 GPIO bank of hw/gpio/stm32_gpio.c.     *)
(*                                                                         *)
(* A 32-bit register (uint32_t) is modelled as the set of the positions of *)
(* its set bits, a subset of 0..31: AND is intersection, OR is union and   *)
(* NOT is the complement in 0..31.  W(hi, lo) builds such a word from its  *)
(* two 16-bit halves, so 0x64000000 is W(25600, 0).  The bus delivers      *)
(* 4-byte accesses only (gpio_ops.impl), so a written value is a word too. *)
(***************************************************************************)
EXTENDS Integers, Sequences, FiniteSets, TLC

VARIABLES s,          \* the STM32GPIOState record (registers, drive vectors, config)
          pc,         \* "created" (realized, not yet reset), "running", "aborted"
          last,       \* the operation performed by the last step, and what it returned
          notified,   \* qemu_set_irq(s->output[i], level) calls of the last operation
          diag,       \* qemu_log_mask(LOG_GUEST_ERROR, ...) calls of the last operation
          nops,       \* number of operations performed so far
          again,      \* the last operation repeated the one before it, same arguments
          scenario,   \* progress through  reset; write(0x000,1); write(0x018,1)
          output      \* the pins whose output line was last set high by qemu_set_irq

vars == <<s, pc, last, notified, diag, nops, again, scenario, output>>

----------------------------------------------------------------------------
(* Bounds of the model.                                                    *)

MaxOps == 4

----------------------------------------------------------------------------
(* Words and the bit helpers of qemu/bitops.h used by the device.          *)

Bits == 0..31

Pow2(n) == 2^n

W(hi, lo) == {i \in 0..15 : (lo \div Pow2(i)) % 2 = 1}
             \cup {i \in 16..31 : (hi \div Pow2(i - 16)) % 2 = 1}

Bit(w, i) == IF i \in w THEN 1 ELSE 0

RECURSIVE extract32(_, _, _)
extract32(value, start, length) ==
    IF length = 1 THEN Bit(value, start)
    ELSE Bit(value, start) + 2 * extract32(value, start + 1, length - 1)

deposit32(value, start, length, fieldval) ==
    (value \ (start..(start + length - 1)))
    \cup {start + k : k \in {j \in 0..(length - 1) : (fieldval \div Pow2(j)) % 2 = 1}}

----------------------------------------------------------------------------
(* Constants of include/hw/gpio/stm32_gpio.h.                              *)

STM32_GPIO_REG_MODER   == 0
STM32_GPIO_REG_OTYPER  == 4
STM32_GPIO_REG_OSPEEDR == 8
STM32_GPIO_REG_PUPDR   == 12
STM32_GPIO_REG_IDR     == 16
STM32_GPIO_REG_ODR     == 20
STM32_GPIO_REG_BSRR    == 24
STM32_GPIO_REG_LCKR    == 28
STM32_GPIO_REG_AFRL    == 32
STM32_GPIO_REG_AFRH    == 36

STM32_GPIO_NPINS == 16

STM32_GPIO_PORT_A == 0
STM32_GPIO_PORT_B == 1
STM32_GPIO_PORT_C == 2

STM32_GPIO_MODE_INPUT  == 0
STM32_GPIO_MODE_OUTPUT == 1
STM32_GPIO_MODE_AF     == 2
STM32_GPIO_MODE_ANALOG == 3

STM32_GPIO_PULL_NONE == 0
STM32_GPIO_PULL_UP   == 1
STM32_GPIO_PULL_DOWN == 2

DefinedOffsets ==
    {STM32_GPIO_REG_MODER, STM32_GPIO_REG_OTYPER, STM32_GPIO_REG_OSPEEDR,
     STM32_GPIO_REG_PUPDR, STM32_GPIO_REG_IDR, STM32_GPIO_REG_ODR,
     STM32_GPIO_REG_BSRR, STM32_GPIO_REG_LCKR, STM32_GPIO_REG_AFRL,
     STM32_GPIO_REG_AFRH}

----------------------------------------------------------------------------
(* update_state: the resolution pass over pins 0..ngpio-1.                 *)

\* variant: any pull other than NONE floats the pin high
new_id_anypull(in, in_mask, mode, od, pupd) ==
    IF in_mask = 1 THEN in
    ELSE IF mode = STM32_GPIO_MODE_OUTPUT THEN od
    ELSE IF pupd # STM32_GPIO_PULL_NONE THEN 1 ELSE 0

\* variant: an OUTPUT pin reads its ODR bit even while driven externally
new_id_outwins(in, in_mask, mode, od, pupd) ==
    IF mode = STM32_GPIO_MODE_OUTPUT THEN od
    ELSE IF in_mask = 1 THEN in
    ELSE IF pupd = STM32_GPIO_PULL_UP THEN 1 ELSE 0

\* lines 43-52: the level the pin resolves to (a C bool, 0 or 1)
new_id(in, in_mask, mode, od, pupd) ==
    IF in_mask = 1 THEN in
    ELSE IF mode = STM32_GPIO_MODE_OUTPUT THEN od
    ELSE IF pupd = STM32_GPIO_PULL_UP THEN 1 ELSE 0

\* variant: the diagnostic is logged for every driven pin, whatever the mode
short_circuited_anymode(mode, in_mask) ==
    in_mask = 1

\* line 39: the short-circuit diagnostic is logged
short_circuited(mode, in_mask) ==
    mode = STM32_GPIO_MODE_OUTPUT /\ in_mask = 1

\* variant: the irq follows every IDR change, whatever the mode
irq_raised_anymode(mode, nid, prev_id) ==
    nid # prev_id

\* variant: the irq is raised on every pass for an OUTPUT pin
irq_raised_level(mode, nid, prev_id) ==
    mode = STM32_GPIO_MODE_OUTPUT

\* line 58: the output irq is raised
irq_raised(mode, nid, prev_id) ==
    mode = STM32_GPIO_MODE_OUTPUT /\ nid # prev_id

\* one iteration of the loop body, lines 30-60, on the accumulator
\* a = [idr, irq, log]
update_pin(st, a, i) ==
    LET prev_id == extract32(a.idr, i, 1)
        od      == extract32(st.odr, i, 1)
        in      == extract32(st.in, i, 1)
        in_mask == extract32(st.in_mask, i, 1)
        mode    == extract32(st.moder, i * 2, 2)
        pupd    == extract32(st.pupdr, i * 2, 2)
        nid     == new_id(in, in_mask, mode, od, pupd)
    IN  [idr |-> deposit32(a.idr, i, 1, nid),
         irq |-> IF irq_raised(mode, nid, prev_id)
                 THEN Append(a.irq, <<i, nid>>) ELSE a.irq,
         log |-> IF short_circuited(mode, in_mask)
                 THEN Append(a.log, [kind |-> "short", arg |-> i]) ELSE a.log]

RECURSIVE update_loop(_, _, _)
update_loop(st, a, i) ==
    IF i < st.ngpio THEN update_loop(st, update_pin(st, a, i), i + 1) ELSE a

\* variant: the pass covers all STM32_GPIO_NPINS pins, whatever ngpio is
update_state_npins(st) ==
    LET a == update_loop([st EXCEPT !.ngpio = STM32_GPIO_NPINS],
                         [idr |-> st.idr, irq |-> <<>>, log |-> <<>>], 0)
    IN  [s |-> [st EXCEPT !.idr = a.idr], irq |-> a.irq, log |-> a.log]

\* the whole pass: the state with the new IDR, the irqs raised and the
\* diagnostics logged, in order
update_state(st) ==
    LET a == update_loop(st, [idr |-> st.idr, irq |-> <<>>, log |-> <<>>], 0)
    IN  [s |-> [st EXCEPT !.idr = a.idr], irq |-> a.irq, log |-> a.log]

----------------------------------------------------------------------------
(* stm32_gpio_read: the value returned and the diagnostics logged.         *)

\* variant: BSRR reads back ODR
stm32_gpio_read_bsrr(st, offset) ==
    [r   |-> CASE offset = STM32_GPIO_REG_MODER   -> st.moder
               [] offset = STM32_GPIO_REG_OTYPER  -> st.otyper
               [] offset = STM32_GPIO_REG_OSPEEDR -> st.ospeedr
               [] offset = STM32_GPIO_REG_PUPDR   -> st.pupdr
               [] offset = STM32_GPIO_REG_IDR     -> st.idr
               [] offset = STM32_GPIO_REG_ODR     -> st.odr
               [] offset = STM32_GPIO_REG_BSRR    -> st.odr
               [] offset = STM32_GPIO_REG_LCKR    -> st.lckr
               [] offset = STM32_GPIO_REG_AFRL    -> st.aflr
               [] offset = STM32_GPIO_REG_AFRH    -> st.afhr
               [] OTHER                           -> {},
     log |-> IF offset \in DefinedOffsets THEN <<>>
             ELSE <<[kind |-> "bad_read", arg |-> offset]>>]

stm32_gpio_read(st, offset) ==
    [r   |-> CASE offset = STM32_GPIO_REG_MODER   -> st.moder
               [] offset = STM32_GPIO_REG_OTYPER  -> st.otyper
               [] offset = STM32_GPIO_REG_OSPEEDR -> st.ospeedr
               [] offset = STM32_GPIO_REG_PUPDR   -> st.pupdr
               [] offset = STM32_GPIO_REG_IDR     -> st.idr
               [] offset = STM32_GPIO_REG_ODR     -> st.odr
               [] offset = STM32_GPIO_REG_BSRR    -> {}
               [] offset = STM32_GPIO_REG_LCKR    -> st.lckr
               [] offset = STM32_GPIO_REG_AFRL    -> st.aflr
               [] offset = STM32_GPIO_REG_AFRH    -> st.afhr
               [] OTHER                           -> {},
     log |-> IF offset \in DefinedOffsets THEN <<>>
             ELSE <<[kind |-> "bad_read", arg |-> offset]>>]

----------------------------------------------------------------------------
(* stm32_gpio_write.                                                       *)

\* variant: the reset half is applied after the set half
bsrr_odr_resetwins(odr, value) ==
    LET resetbits == {i \in 0..15 : (i + 16) \in value}
        setbits   == value \cap (0..15)
    IN  (odr \cup setbits) \ resetbits

\* lines 153-154: ODR after a BSRR write
bsrr_odr(odr, value) ==
    LET resetbits == {i \in 0..15 : (i + 16) \in value}     \* (value >> 16) & 0xFFFF
        setbits   == value \cap (0..15)                      \* value & 0xFFFF
    IN  (odr \ resetbits) \cup setbits

\* variant: once LCKR holds the lock key bit (bit 16), writes to the
\* configuration registers are dropped
write_switch_locked(st, offset, value) ==
    CASE offset = STM32_GPIO_REG_MODER   -> IF 16 \in st.lckr THEN st ELSE [st EXCEPT !.moder = value]
      [] offset = STM32_GPIO_REG_OTYPER  -> IF 16 \in st.lckr THEN st ELSE [st EXCEPT !.otyper = value]
      [] offset = STM32_GPIO_REG_OSPEEDR -> IF 16 \in st.lckr THEN st ELSE [st EXCEPT !.ospeedr = value]
      [] offset = STM32_GPIO_REG_PUPDR   -> IF 16 \in st.lckr THEN st ELSE [st EXCEPT !.pupdr = value]
      [] offset = STM32_GPIO_REG_ODR     -> [st EXCEPT !.odr = value]
      [] offset = STM32_GPIO_REG_BSRR    -> [st EXCEPT !.odr = bsrr_odr(st.odr, value)]
      [] offset = STM32_GPIO_REG_LCKR    -> [st EXCEPT !.lckr = value]
      [] offset = STM32_GPIO_REG_AFRL    -> IF 16 \in st.lckr THEN st ELSE [st EXCEPT !.aflr = value]
      [] offset = STM32_GPIO_REG_AFRH    -> IF 16 \in st.lckr THEN st ELSE [st EXCEPT !.afhr = value]
      [] OTHER                           -> st

\* variant: the IDR case stores the value like its neighbours
write_switch_idr(st, offset, value) ==
    CASE offset = STM32_GPIO_REG_MODER   -> [st EXCEPT !.moder = value]
      [] offset = STM32_GPIO_REG_OTYPER  -> [st EXCEPT !.otyper = value]
      [] offset = STM32_GPIO_REG_OSPEEDR -> [st EXCEPT !.ospeedr = value]
      [] offset = STM32_GPIO_REG_PUPDR   -> [st EXCEPT !.pupdr = value]
      [] offset = STM32_GPIO_REG_IDR     -> [st EXCEPT !.idr = value]
      [] offset = STM32_GPIO_REG_ODR     -> [st EXCEPT !.odr = value]
      [] offset = STM32_GPIO_REG_BSRR    -> [st EXCEPT !.odr = bsrr_odr(st.odr, value)]
      [] offset = STM32_GPIO_REG_LCKR    -> [st EXCEPT !.lckr = value]
      [] offset = STM32_GPIO_REG_AFRL    -> [st EXCEPT !.aflr = value]
      [] offset = STM32_GPIO_REG_AFRH    -> [st EXCEPT !.afhr = value]
      [] OTHER                           -> st

\* the switch, lines 127-171
write_switch(st, offset, value) ==
    CASE offset = STM32_GPIO_REG_MODER   -> [st EXCEPT !.moder = value]
      [] offset = STM32_GPIO_REG_OTYPER  -> [st EXCEPT !.otyper = value]
      [] offset = STM32_GPIO_REG_OSPEEDR -> [st EXCEPT !.ospeedr = value]
      [] offset = STM32_GPIO_REG_PUPDR   -> [st EXCEPT !.pupdr = value]
      [] offset = STM32_GPIO_REG_IDR     -> st
      [] offset = STM32_GPIO_REG_ODR     -> [st EXCEPT !.odr = value]
      [] offset = STM32_GPIO_REG_BSRR    -> [st EXCEPT !.odr = bsrr_odr(st.odr, value)]
      [] offset = STM32_GPIO_REG_LCKR    -> [st EXCEPT !.lckr = value]
      [] offset = STM32_GPIO_REG_AFRL    -> [st EXCEPT !.aflr = value]
      [] offset = STM32_GPIO_REG_AFRH    -> [st EXCEPT !.afhr = value]
      [] OTHER                           -> st

\* variant: the write returns without the resolution pass
stm32_gpio_write_noupdate(st, offset, value) ==
    [s   |-> write_switch(st, offset, value),
     irq |-> <<>>,
     log |-> IF offset \in DefinedOffsets THEN <<>>
             ELSE <<[kind |-> "bad_write", arg |-> offset]>>]

stm32_gpio_write(st, offset, value) ==
    LET u == update_state(write_switch(st, offset, value))
    IN  [s   |-> u.s,
         irq |-> u.irq,
         log |-> (IF offset \in DefinedOffsets THEN <<>>
                  ELSE <<[kind |-> "bad_write", arg |-> offset]>>) \o u.log]

----------------------------------------------------------------------------
(* stm32_gpio_set: the handler of the input lines.                         *)

\* line 190
line_asserted(line) == line >= 0 /\ line < STM32_GPIO_NPINS

\* variant: releasing a line also clears its recorded level
stm32_gpio_set_clears(st, line, value) ==
    LET m  == deposit32(st.in_mask, line, 1, IF value >= 0 THEN 1 ELSE 0)
        d  == deposit32(st.in, line, 1, IF value > 0 THEN 1 ELSE 0)
    IN  update_state([st EXCEPT !.in_mask = m, !.in = d])

\* lines 192-197, once the assertion has passed
stm32_gpio_set(st, line, value) ==
    LET m  == deposit32(st.in_mask, line, 1, IF value >= 0 THEN 1 ELSE 0)
        d  == IF value >= 0
              THEN deposit32(st.in, line, 1, IF value # 0 THEN 1 ELSE 0)
              ELSE st.in
    IN  update_state([st EXCEPT !.in_mask = m, !.in = d])

----------------------------------------------------------------------------
(* stm32_gpio_reset.                                                       *)

\* variant: the port-specific ODR value survives (no second store to odr)
stm32_gpio_reset_keeps_odr(st) ==
    LET p == IF st.port = STM32_GPIO_PORT_A
                 THEN [odr |-> W(43008, 0), ospeedr |-> {}, pupdr |-> W(25600, 0)]
             ELSE IF st.port = STM32_GPIO_PORT_B
                 THEN [odr |-> W(0, 640), ospeedr |-> W(0, 192), pupdr |-> W(0, 256)]
             ELSE [odr |-> {}, ospeedr |-> {}, pupdr |-> {}]
        a == [st EXCEPT !.odr = p.odr, !.ospeedr = p.ospeedr, !.pupdr = p.pupdr]
    IN  [a EXCEPT !.otyper = {}, !.idr = {}, !.lckr = {},
                  !.aflr = {}, !.afhr = {}, !.in = {}, !.in_mask = {}]

stm32_gpio_reset(st) ==
    LET p == IF st.port = STM32_GPIO_PORT_A
                 THEN [odr |-> W(43008, 0), ospeedr |-> {}, pupdr |-> W(25600, 0)]
             ELSE IF st.port = STM32_GPIO_PORT_B
                 THEN [odr |-> W(0, 640), ospeedr |-> W(0, 192), pupdr |-> W(0, 256)]
             ELSE [odr |-> {}, ospeedr |-> {}, pupdr |-> {}]
        a == [st EXCEPT !.odr = p.odr, !.ospeedr = p.ospeedr, !.pupdr = p.pupdr]
    IN  [a EXCEPT !.otyper = {}, !.idr = {}, !.odr = {}, !.lckr = {},
                  !.aflr = {}, !.afhr = {}, !.in = {}, !.in_mask = {}]

----------------------------------------------------------------------------
(* Inputs the operations are exercised with.                               *)

Ports == {STM32_GPIO_PORT_A, STM32_GPIO_PORT_B, STM32_GPIO_PORT_C}

NGpios == {1, STM32_GPIO_NPINS}

BadOffsets == {256}

Offsets == DefinedOffsets \cup BadOffsets

\* values written, per register
ModerValues == {W(0, 1),            \* 0x00000001: pin 0 OUTPUT
                W(16384, 11)}       \* 0x4000000B: pin 0 ANALOG, pin 1 AF, pin 15 OUTPUT

PupdrValues == {W(0, 1),            \* 0x00000001: pin 0 PULL_UP
                W(16384, 11)}       \* 0x4000000B: pin 0 reserved (3), pin 1 PULL_DOWN,
                                    \*             pin 15 PULL_UP

OdrValues   == {W(0, 1),            \* 0x00000001: bit 0
                W(1, 32768)}        \* 0x00018000: bits 15 and 16

BsrrValues  == {W(0, 1),            \* 0x00000001: set 0
                W(32769, 1)}        \* 0x80010001: set 0 and reset 0, reset 15

IdrValues   == {W(65535, 65535),    \* 0xFFFFFFFF
                W(0, 2)}            \* 0x00000002: bit 1

OtherValues == {W(65535, 65535)}

WriteValues(offset) ==
    CASE offset = STM32_GPIO_REG_MODER -> ModerValues
      [] offset = STM32_GPIO_REG_PUPDR -> PupdrValues
      [] offset = STM32_GPIO_REG_IDR   -> IdrValues
      [] offset = STM32_GPIO_REG_ODR   -> OdrValues
      [] offset = STM32_GPIO_REG_BSRR  -> BsrrValues
      [] OTHER                         -> OtherValues

Lines == {0, 15, 16}

Levels == {-1, 0, 2}

NoWord == {}

Op(op, offset, value, line, level, r) ==
    [op |-> op, offset |-> offset, value |-> value, line |-> line,
     level |-> level, r |-> r]

SameOp(a, b) ==
    /\ a.op = b.op
    /\ a.offset = b.offset
    /\ a.value = b.value
    /\ a.line = b.line
    /\ a.level = b.level

----------------------------------------------------------------------------
(* The state machine.                                                      *)

\* object allocation zeroes the instance; port and ngpio are configuration
\* the levels of the output lines after the qemu_set_irq calls of one
\* operation, in order: the last call for a line decides its level
set_irqs(out, irq) ==
    {i \in 0..(STM32_GPIO_NPINS - 1) :
        IF \E k \in 1..Len(irq) : irq[k][1] = i
        THEN LET k == CHOOSE k \in 1..Len(irq) :
                        /\ irq[k][1] = i
                        /\ \A j \in (k + 1)..Len(irq) : irq[j][1] # i
             IN  irq[k][2] = 1
        ELSE i \in out}

Init ==
    /\ \E port \in Ports, ngpio \in NGpios :
         s = [moder |-> {}, otyper |-> {}, ospeedr |-> {}, pupdr |-> {},
              idr |-> {}, odr |-> {}, lckr |-> {}, aflr |-> {}, afhr |-> {},
              in |-> {}, in_mask |-> {}, port |-> port, ngpio |-> ngpio]
    /\ pc = "created"
    /\ last = Op("create", 0, NoWord, 0, 0, NoWord)
    /\ notified = <<>>
    /\ diag = <<>>
    /\ nops = 0
    /\ again = FALSE
    /\ scenario = 0
    /\ output = {}

\* dc->reset: runs once at cold start, before any guest access, and at any
\* later system reset
Reset ==
    /\ pc \in {"created", "running"}
    /\ nops < MaxOps
    /\ s' = stm32_gpio_reset(s)
    /\ pc' = "running"
    /\ last' = Op("reset", 0, NoWord, 0, 0, NoWord)
    /\ notified' = <<>>
    /\ diag' = <<>>
    /\ nops' = nops + 1
    /\ again' = SameOp(last', last)
    /\ scenario' = IF pc = "created" THEN 1 ELSE 0
    /\ UNCHANGED output

Read(offset) ==
    /\ pc = "running"
    /\ nops < MaxOps
    /\ \E res \in {stm32_gpio_read(s, offset)} :
           /\ last' = Op("read", offset, NoWord, 0, 0, res.r)
           /\ diag' = res.log
    /\ notified' = <<>>
    /\ nops' = nops + 1
    /\ again' = SameOp(last', last)
    /\ scenario' = 0
    /\ UNCHANGED <<s, pc, output>>

Write(offset, value) ==
    /\ pc = "running"
    /\ nops < MaxOps
    /\ \E res \in {stm32_gpio_write(s, offset, value)} :
           /\ s' = res.s
           /\ notified' = res.irq
           /\ diag' = res.log
           /\ output' = set_irqs(output, res.irq)
    /\ last' = Op("write", offset, value, 0, 0, NoWord)
    /\ nops' = nops + 1
    /\ again' = SameOp(last', last)
    /\ scenario' = IF scenario = 1 /\ offset = STM32_GPIO_REG_MODER /\ value = W(0, 1)
                       THEN 2
                   ELSE IF scenario = 2 /\ offset = STM32_GPIO_REG_BSRR /\ value = W(0, 1)
                       THEN 3
                   ELSE 0
    /\ UNCHANGED pc

Set(line, value) ==
    /\ pc = "running"
    /\ nops < MaxOps
    /\ last' = Op("set", 0, NoWord, line, value, NoWord)
    /\ nops' = nops + 1
    /\ again' = SameOp(last', last)
    /\ scenario' = 0
    /\ IF line_asserted(line)
       THEN \E res \in {stm32_gpio_set(s, line, value)} :
                /\ s' = res.s
                /\ notified' = res.irq
                /\ diag' = res.log
                /\ output' = set_irqs(output, res.irq)
                /\ UNCHANGED pc
       ELSE /\ pc' = "aborted"
            /\ notified' = <<>>
            /\ diag' = <<>>
            /\ UNCHANGED <<s, output>>

Next ==
    \/ Reset
    \/ \E offset \in Offsets : Read(offset)
    \/ \E offset \in Offsets : \E value \in WriteValues(offset) : Write(offset, value)
    \/ \E line \in Lines : \E value \in Levels : Set(line, value)

Spec == Init /\ [][Next]_vars

----------------------------------------------------------------------------
(* Vocabulary of the properties.                                           *)

Pins(st) == 0..(st.ngpio - 1)

Mode(st, i) == Bit(st.moder, 2 * i) + 2 * Bit(st.moder, 2 * i + 1)

Pull(st, i) == Bit(st.pupdr, 2 * i) + 2 * Bit(st.pupdr, 2 * i + 1)

\* the level pin i resolves to, from MODER, PUPDR, ODR, in and in_mask
Resolved(st, i) ==
    IF i \in st.in_mask THEN Bit(st.in, i)
    ELSE IF Mode(st, i) = STM32_GPIO_MODE_OUTPUT THEN Bit(st.odr, i)
    ELSE IF Pull(st, i) = STM32_GPIO_PULL_UP THEN 1 ELSE 0

\* the positions in a notification sequence that are about pin i
NotifiedFor(seq, i) == {k \in 1..Len(seq) : seq[k][1] = i}

Inputs(st) == <<st.moder, st.pupdr, st.odr, st.in, st.in_mask>>

PassOps == {"write", "set"}

----------------------------------------------------------------------------
(* C1 - IDR consistent after every public operation.                       *)

\* C1: in every state between operations, for every pin i < N, IDR bit i
\* equals the level resolved from MODER, PUPDR, ODR, in and in_mask.
C1_IdrAlwaysResolved ==
    \A i \in Pins(s) : Bit(s.idr, i) = Resolved(s, i)

----------------------------------------------------------------------------
(* C2 - one pass over all pins after every write and set_external.         *)

\* C2: right after a register write or a set_external call, every pin i < N
\* has IDR[i] = in[i] if driven, else ODR[i] if OUTPUT, else 1 for PULL_UP
\* and 0 for NONE, PULL_DOWN and the reserved pull value 3, in any
\* non-OUTPUT mode; in[i] is ignored while in_mask[i] is clear.
C2_PassCoversAllPins ==
    (pc = "running" /\ last.op \in PassOps) =>
        \A i \in Pins(s) :
            LET driven == i \in s.in_mask
                outmode == Mode(s, i) = STM32_GPIO_MODE_OUTPUT
                other  == Mode(s, i) \in {STM32_GPIO_MODE_INPUT, STM32_GPIO_MODE_AF,
                                          STM32_GPIO_MODE_ANALOG}
            IN  /\ driven => Bit(s.idr, i) = Bit(s.in, i)
                /\ (~driven /\ outmode) => Bit(s.idr, i) = Bit(s.odr, i)
                /\ (~driven /\ other /\ Pull(s, i) = STM32_GPIO_PULL_UP)
                      => Bit(s.idr, i) = 1
                /\ (~driven /\ other
                       /\ Pull(s, i) \in {STM32_GPIO_PULL_NONE, STM32_GPIO_PULL_DOWN, 3})
                      => Bit(s.idr, i) = 0

\* a released pin with a stale drive bit and the reserved pull value reads 0
C2_Witness ==
    /\ pc = "running"
    /\ last.op \in PassOps
    /\ \E i \in Pins(s) :
          /\ i \in s.in /\ i \notin s.in_mask
          /\ Mode(s, i) # STM32_GPIO_MODE_OUTPUT
          /\ Pull(s, i) = 3
          /\ i \notin s.idr

----------------------------------------------------------------------------
(* C3 - output notifications are edge-triggered.                           *)

\* C3: an operation that runs the pass notifies pin i exactly when the pin is
\* OUTPUT after the register update and its resolved level differs from the
\* IDR bit held before the pass; the notification carries the resolved level,
\* there is at most one per pin, and no other operation notifies at all.
C3_EdgeTriggered ==
    [][IF pc' = "running" /\ last'.op \in PassOps
       THEN /\ \A k \in 1..Len(notified') : notified'[k][1] \in Pins(s')
            /\ \A i \in Pins(s') :
                  LET hits  == NotifiedFor(notified', i)
                      fires == /\ Mode(s', i) = STM32_GPIO_MODE_OUTPUT
                               /\ Resolved(s', i) # Bit(s.idr, i)
                  IN  /\ Cardinality(hits) <= 1
                      /\ (hits # {}) <=> fires
                      /\ \A k \in hits : notified'[k][2] = Resolved(s', i)
       ELSE notified' = <<>>]_vars

\* a pass that notified an output pin and left a non-output pin high
C3_Witness ==
    /\ pc = "running"
    /\ last.op \in PassOps
    /\ notified # <<>>
    /\ \E i \in Pins(s) : Mode(s, i) # STM32_GPIO_MODE_OUTPUT /\ i \in s.idr

----------------------------------------------------------------------------
(* C4 - idempotence of the resolution.                                     *)

\* C4: an ODR write that repeats the previous ODR write emits no notification
\* and changes nothing, the first having emitted at most one notification per
\* pin; and a pass that directly follows a pass on the same inputs leaves IDR
\* as it was and emits no notification.
C4_Idempotent ==
    [][/\ (/\ pc = "running"
           /\ last.op = "write" /\ last.offset = STM32_GPIO_REG_ODR
           /\ last'.op = "write" /\ last'.offset = STM32_GPIO_REG_ODR
           /\ last'.value = last.value)
          => (/\ s' = s
              /\ notified' = <<>>
              /\ \A i \in 0..(STM32_GPIO_NPINS - 1) :
                    Cardinality(NotifiedFor(notified, i)) <= 1)
       /\ (/\ pc = "running" /\ pc' = "running"
           /\ last.op \in PassOps /\ last'.op \in PassOps
           /\ Inputs(s') = Inputs(s))
          => (s'.idr = s.idr /\ notified' = <<>>)]_vars

\* the second of two identical ODR writes, with an output pin driven high
C4_Witness ==
    /\ pc = "running"
    /\ last.op = "write" /\ last.offset = STM32_GPIO_REG_ODR
    /\ again
    /\ notified = <<>>
    /\ \E i \in Pins(s) :
          Mode(s, i) = STM32_GPIO_MODE_OUTPUT /\ i \in s.odr /\ i \in s.idr

----------------------------------------------------------------------------
(* C5 - the set/reset register.                                            *)

\* C5: a BSRR write of v sets ODR bit i (i < 16) when bit i of v is set, also
\* when bit 16+i is set; clears it when only bit 16+i is set; keeps it
\* otherwise; ODR bits 16..31 and the configuration registers are unchanged.
C5_BsrrSetWins ==
    [][(pc' = "running" /\ last'.op = "write" /\ last'.offset = STM32_GPIO_REG_BSRR)
       => LET v == last'.value
          IN  /\ \A i \in 0..15 :
                    Bit(s'.odr, i) = IF i \in v THEN 1
                                     ELSE IF (i + 16) \in v THEN 0
                                     ELSE Bit(s.odr, i)
              /\ \A i \in 16..31 : Bit(s'.odr, i) = Bit(s.odr, i)
              /\ s'.moder = s.moder /\ s'.otyper = s.otyper
              /\ s'.ospeedr = s.ospeedr /\ s'.pupdr = s.pupdr
              /\ s'.lckr = s.lckr /\ s'.aflr = s.aflr /\ s'.afhr = s.afhr]_vars

\* set and reset requested for pin 0, reset alone cleared pin 15, bit 16 kept
C5_Witness ==
    /\ pc = "running"
    /\ last.op = "write" /\ last.offset = STM32_GPIO_REG_BSRR
    /\ 0 \in last.value /\ 16 \in last.value /\ 0 \in s.odr
    /\ 31 \in last.value /\ 15 \notin last.value /\ 15 \notin s.odr
    /\ 16 \in s.odr

----------------------------------------------------------------------------
(* C6 - registers read after a reset of port A.                            *)

\* C6: right after reset() on a port-A bank, in any reachable state, MODER
\* reads 0, PUPDR reads 0x64000000, ODR reads 0 and IDR reads 0.
C6_ResetReadsPortA ==
    (last.op = "reset" /\ s.port = STM32_GPIO_PORT_A) =>
        /\ stm32_gpio_read(s, STM32_GPIO_REG_MODER).r = {}
        /\ stm32_gpio_read(s, STM32_GPIO_REG_PUPDR).r = W(25600, 0)
        /\ stm32_gpio_read(s, STM32_GPIO_REG_ODR).r = {}
        /\ stm32_gpio_read(s, STM32_GPIO_REG_IDR).r = {}

----------------------------------------------------------------------------
(* C7 - what reset sets.                                                   *)

----------------------------------------------------------------------------
(* C8 - the address-map scenario.                                          *)

\* C8: after reset of a fresh bank, write(0x000, 1) and write(0x018, 1), ODR
\* reads 1 and IDR reads 1, and the only notification of the whole sequence
\* is (pin 0, level 1).
C8_ScenarioReadsOne ==
    /\ scenario \in {1, 2} => notified = <<>>
    /\ scenario = 3 =>
          /\ stm32_gpio_read(s, STM32_GPIO_REG_ODR).r = {0}
          /\ stm32_gpio_read(s, STM32_GPIO_REG_IDR).r = {0}
          /\ notified = << <<0, 1>> >>

\* the pins the reset value of PUPDR pulls up
ResetPullUps(port) ==
    IF port = STM32_GPIO_PORT_A THEN {13, 15}
    ELSE IF port = STM32_GPIO_PORT_B THEN {4}
    ELSE {}

\* C8 (amended): as above, but IDR reads bit 0 together with the bits of the
\* pins below N that the port's reset PUPDR pulls up: 0x0000A001 on port A
\* and 0x00000011 on port B with 16 pins, 1 on any other port.
C8_ScenarioReadsPullUps ==
    /\ scenario \in {1, 2} => notified = <<>>
    /\ scenario = 3 =>
          /\ stm32_gpio_read(s, STM32_GPIO_REG_ODR).r = {0}
          /\ stm32_gpio_read(s, STM32_GPIO_REG_IDR).r =
                {0} \cup {i \in ResetPullUps(s.port) : i < s.ngpio}
          /\ notified = << <<0, 1>> >>

\* the end of the scenario on a 16-pin port A
C8_Witness ==
    /\ scenario = 3
    /\ s.port = STM32_GPIO_PORT_A
    /\ s.ngpio = STM32_GPIO_NPINS
    /\ s.idr = {0, 13, 15}

----------------------------------------------------------------------------
(* C9 - writes to undefined offsets.                                       *)

\* C9: a write to an undefined offset logs a malformed-access diagnostic,
\* leaves every register and both drive vectors unchanged and emits no
\* notification.
C9_BadWriteNoEffect ==
    [][(last'.op = "write" /\ last'.offset \notin DefinedOffsets)
       => /\ s' = s
          /\ notified' = <<>>
          /\ \E k \in 1..Len(diag') :
                diag'[k] = [kind |-> "bad_write", arg |-> last'.offset]]_vars

----------------------------------------------------------------------------
(* C10 - reads.                                                            *)

\* C10: a read at any offset leaves the registers and drive vectors
\* unchanged, runs no pass and notifies nothing; at an undefined offset it
\* returns 0 with exactly one malformed-access diagnostic, at BSRR it returns
\* 0, at a storage offset it returns the backing value.
C10_ReadSideEffectFree ==
    [][(last'.op = "read")
       => LET o == last'.offset
              r == last'.r
          IN  /\ s' = s
              /\ pc' = pc
              /\ notified' = <<>>
              /\ (o \notin DefinedOffsets)
                    => (r = {} /\ diag' = <<[kind |-> "bad_read", arg |-> o]>>)
              /\ (o \in DefinedOffsets) => diag' = <<>>
              /\ (o = STM32_GPIO_REG_BSRR) => r = {}
              /\ (o = STM32_GPIO_REG_MODER) => r = s.moder
              /\ (o = STM32_GPIO_REG_OTYPER) => r = s.otyper
              /\ (o = STM32_GPIO_REG_OSPEEDR) => r = s.ospeedr
              /\ (o = STM32_GPIO_REG_PUPDR) => r = s.pupdr
              /\ (o = STM32_GPIO_REG_IDR) => r = s.idr
              /\ (o = STM32_GPIO_REG_ODR) => r = s.odr
              /\ (o = STM32_GPIO_REG_LCKR) => r = s.lckr
              /\ (o = STM32_GPIO_REG_AFRL) => r = s.aflr
              /\ (o = STM32_GPIO_REG_AFRH) => r = s.afhr]_vars

\* a BSRR read returning 0 while ODR holds bits set through BSRR or ODR
C10_Witness ==
    /\ last.op = "read"
    /\ last.offset = STM32_GPIO_REG_BSRR
    /\ last.r = {}
    /\ s.odr # {}

----------------------------------------------------------------------------
(* C11 - IDR is not settable through the register interface.               *)

\* C11: a write to the IDR offset yields the same post-state and the same
\* notifications whatever value is written; it leaves MODER, PUPDR, ODR, the
\* opaque registers and both drive vectors unchanged, and IDR afterwards is
\* the resolved level of each pin below N, with the other bits as before.
C11_IdrWriteIgnored ==
    [][(pc' = "running" /\ last'.op = "write" /\ last'.offset = STM32_GPIO_REG_IDR)
       => /\ \A v \in IdrValues :
                LET other == stm32_gpio_write(s, STM32_GPIO_REG_IDR, v)
                IN  other.s = s' /\ other.irq = notified'
          /\ s'.moder = s.moder /\ s'.pupdr = s.pupdr /\ s'.odr = s.odr
          /\ s'.otyper = s.otyper /\ s'.ospeedr = s.ospeedr /\ s'.lckr = s.lckr
          /\ s'.aflr = s.aflr /\ s'.afhr = s.afhr
          /\ s'.in = s.in /\ s'.in_mask = s.in_mask
          /\ \A i \in Bits :
                Bit(s'.idr, i) = IF i \in Pins(s) THEN Resolved(s', i)
                                 ELSE Bit(s.idr, i)]_vars

\* an IDR write of a value that IDR does not hold afterwards
C11_Witness ==
    /\ pc = "running"
    /\ last.op = "write" /\ last.offset = STM32_GPIO_REG_IDR
    /\ last.value # {}
    /\ s.idr # {}
    /\ s.idr # last.value

----------------------------------------------------------------------------
(* C12 - set_external asserts on a pin outside 0..N-1.                     *)

\* C12: a set_external call whose pin is outside 0..N-1, N the configured
\* pin count, ends in the fatal assertion.
C12_AssertOutsideN ==
    (last.op = "set" /\ last.line \notin Pins(s)) => pc = "aborted"

----------------------------------------------------------------------------
(* C13 - set_external on an accepted pin.                                  *)

\* C13: an accepted set_external(pin, value) with a negative value clears
\* in_mask[pin] and leaves in[pin] as it was; with a non-negative value it
\* sets in_mask[pin] and sets in[pin] to (value # 0); the in and in_mask
\* bits of the other pins, MODER, PUPDR, ODR and the opaque registers are
\* unchanged, and one pass has run: every pin below N holds its resolved
\* level.
C13_SetExternal ==
    [][(pc' = "running" /\ last'.op = "set")
       => LET p == last'.line
              v == last'.level
          IN  /\ Bit(s'.in_mask, p) = IF v < 0 THEN 0 ELSE 1
              /\ Bit(s'.in, p) = IF v < 0 THEN Bit(s.in, p)
                                 ELSE IF v # 0 THEN 1 ELSE 0
              /\ \A i \in Bits \ {p} :
                    /\ Bit(s'.in, i) = Bit(s.in, i)
                    /\ Bit(s'.in_mask, i) = Bit(s.in_mask, i)
              /\ s'.moder = s.moder /\ s'.pupdr = s.pupdr /\ s'.odr = s.odr
              /\ s'.otyper = s.otyper /\ s'.ospeedr = s.ospeedr
              /\ s'.lckr = s.lckr /\ s'.aflr = s.aflr /\ s'.afhr = s.afhr
              /\ \A i \in Pins(s') : Bit(s'.idr, i) = Resolved(s', i)]_vars

\* a released pin whose recorded level stays 1 while IDR follows the pull
C13_Witness ==
    /\ pc = "running"
    /\ last.op = "set" /\ last.level < 0
    /\ last.line \in Pins(s)
    /\ last.line \in s.in
    /\ last.line \notin s.in_mask
    /\ last.line \notin s.idr

----------------------------------------------------------------------------
(* C14 - the short-circuit diagnostic.                                     *)

\* C14: in the pass of every write and set_external, the short-circuit
\* diagnostic is logged for pin i < N exactly once if MODER field i is
\* OUTPUT and in_mask[i] is set, and not at all otherwise; the pass still
\* completes for every pin, such a pin reads in[i] in IDR whatever ODR[i]
\* is, and the pass leaves ODR as the operation set it.
C14_ShortCircuit ==
    [][(pc' = "running" /\ last'.op \in PassOps)
       => /\ \A i \in Pins(s') :
                LET short == Mode(s', i) = STM32_GPIO_MODE_OUTPUT /\ i \in s'.in_mask
                    logged == {k \in 1..Len(diag') :
                                  diag'[k] = [kind |-> "short", arg |-> i]}
                IN  /\ Cardinality(logged) = IF short THEN 1 ELSE 0
                    /\ short => Bit(s'.idr, i) = Bit(s'.in, i)
                    /\ Bit(s'.idr, i) = Resolved(s', i)
          /\ \A k \in 1..Len(diag') :
                diag'[k].kind = "short" => diag'[k].arg \in Pins(s')
          /\ (last'.op = "set") => s'.odr = s.odr
          /\ (last'.op = "write" /\ last'.offset = STM32_GPIO_REG_ODR)
                => s'.odr = last'.value
          /\ (last'.op = "write"
                /\ last'.offset \notin {STM32_GPIO_REG_ODR, STM32_GPIO_REG_BSRR})
                => s'.odr = s.odr]_vars

\* an OUTPUT pin driven externally against its ODR bit: logged, IDR = in
C14_Witness ==
    /\ pc = "running"
    /\ last.op \in PassOps
    /\ \E i \in Pins(s) :
          /\ Mode(s, i) = STM32_GPIO_MODE_OUTPUT
          /\ i \in s.in_mask
          /\ Bit(s.odr, i) # Bit(s.in, i)
          /\ Bit(s.idr, i) = Bit(s.in, i)
          /\ \E k \in 1..Len(diag) : diag[k] = [kind |-> "short", arg |-> i]

----------------------------------------------------------------------------
(* C15 - writes to the opaque registers.                                   *)

OpaqueOffsets ==
    {STM32_GPIO_REG_OTYPER, STM32_GPIO_REG_OSPEEDR, STM32_GPIO_REG_LCKR,
     STM32_GPIO_REG_AFRL, STM32_GPIO_REG_AFRH}

\* C15: a write to OTYPER, OSPEEDR, LCKR, AFRL or AFRH changes only that
\* register: MODER, PUPDR, ODR, IDR, in and in_mask and the other opaque
\* registers are unchanged, and no notification is emitted.
C15_OpaqueWriteFrame ==
    [][(pc' = "running" /\ last'.op = "write" /\ last'.offset \in OpaqueOffsets)
       => LET o == last'.offset
          IN  /\ s'.moder = s.moder /\ s'.pupdr = s.pupdr /\ s'.odr = s.odr
              /\ s'.idr = s.idr
              /\ s'.in = s.in /\ s'.in_mask = s.in_mask
              /\ (o # STM32_GPIO_REG_OTYPER) => s'.otyper = s.otyper
              /\ (o # STM32_GPIO_REG_OSPEEDR) => s'.ospeedr = s.ospeedr
              /\ (o # STM32_GPIO_REG_LCKR) => s'.lckr = s.lckr
              /\ (o # STM32_GPIO_REG_AFRL) => s'.aflr = s.aflr
              /\ (o # STM32_GPIO_REG_AFRH) => s'.afhr = s.afhr
              /\ notified' = <<>>]_vars

----------------------------------------------------------------------------
(* C16 - write/read round trip of the storage registers.                   *)

RoundTripOffsets ==
    {STM32_GPIO_REG_MODER, STM32_GPIO_REG_OTYPER, STM32_GPIO_REG_OSPEEDR,
     STM32_GPIO_REG_PUPDR, STM32_GPIO_REG_ODR, STM32_GPIO_REG_LCKR,
     STM32_GPIO_REG_AFRL, STM32_GPIO_REG_AFRH}

\* C16: for MODER, OTYPER, OSPEEDR, PUPDR, ODR, LCKR, AFRL and AFRH, a write
\* of v leaves a state in which a read at the same offset returns exactly v,
\* and a read that directly follows the write returns v, whatever LCKR holds.
C16_WriteReadRoundTrip ==
    [][/\ (pc' = "running" /\ last'.op = "write" /\ last'.offset \in RoundTripOffsets)
          => stm32_gpio_read(s', last'.offset) = [r |-> last'.value, log |-> <<>>]
       /\ (last.op = "write" /\ last.offset \in RoundTripOffsets
             /\ last'.op = "read" /\ last'.offset = last.offset)
          => last'.r = last.value]_vars

\* MODER read back as written while LCKR holds the lock key bit
C16_Witness ==
    /\ last.op = "read" /\ last.offset = STM32_GPIO_REG_MODER
    /\ last.r # {}
    /\ last.r = s.moder
    /\ 16 \in s.lckr

----------------------------------------------------------------------------
(* C17 - the output lines track IDR for OUTPUT pins.                       *)

\* C17: after any operation, for every pin i < N in OUTPUT mode, the level
\* of the most recent notification for pin i (low if there was none) equals
\* IDR[i].
C17_OutputLineTracksIdr ==
    (pc = "running") =>
        \A i \in Pins(s) :
            (Mode(s, i) = STM32_GPIO_MODE_OUTPUT)
                => Bit(s.idr, i) = IF i \in output THEN 1 ELSE 0

----------------------------------------------------------------------------
(* C18 - IDR bits at and above N stay 0.                                   *)

\* C18: in every reachable state every IDR bit at a position >= N, bits
\* 16..31 included, is 0.
C18_IdrHighBitsZero ==
    \A i \in Bits : (i >= s.ngpio) => i \notin s.idr

\* a one-pin bank after a pass in which pin 15 is driven high
C18_Witness ==
    /\ pc = "running"
    /\ last.op \in PassOps
    /\ s.ngpio = 1
    /\ 15 \in s.in_mask /\ 15 \in s.in
    /\ 15 \notin s.idr

----------------------------------------------------------------------------
(* C19 - driving a pin and releasing it again.                             *)

\* C19: from a state left by a write or a set_external in which pin p < N
\* is not driven, set_external(p, v) with v >= 0 followed at once by
\* set_external(p, -1) restores IDR and every register; of the drive
\* vectors only bit p of in may differ.  If p is OUTPUT and (v # 0) differs
\* from ODR[p], the drive emits the single notification (p, driven level)
\* and the release the single notification (p, ODR[p]); otherwise neither
\* emits any.  The release that follows a drive is the step the first part
\* computes.
C19_DriveReleaseRoundTrip ==
    [][/\ (/\ pc = "running" /\ last.op \in PassOps
           /\ pc' = "running" /\ last'.op = "set" /\ last'.level >= 0
           /\ last'.line \in Pins(s) /\ last'.line \notin s.in_mask)
          => LET p == last'.line
                 driven == IF last'.level # 0 THEN 1 ELSE 0
                 conflict == /\ Mode(s, p) = STM32_GPIO_MODE_OUTPUT
                             /\ driven # Bit(s.odr, p)
             IN  \E back \in {stm32_gpio_set(s', p, -1)} :
                    /\ back.s = [s EXCEPT !.in = s'.in]
                    /\ \A i \in Bits \ {p} : Bit(s'.in, i) = Bit(s.in, i)
                    /\ notified' = IF conflict THEN << <<p, driven>> >> ELSE <<>>
                    /\ back.irq = IF conflict THEN << <<p, Bit(s.odr, p)>> >> ELSE <<>>
       /\ (/\ pc = "running" /\ last.op = "set" /\ last.level >= 0
           /\ pc' = "running" /\ last'.op = "set" /\ last'.level < 0
           /\ last'.line = last.line)
          => \E back \in {stm32_gpio_set(s, last.line, -1)} :
                s' = back.s /\ notified' = back.irq]_vars

\* the release of an OUTPUT pin that was driven against its ODR bit: the
\* ODR level is notified, IDR is back at it and in[p] keeps the driven level
C19_Witness ==
    /\ pc = "running"
    /\ last.op = "set" /\ last.level < 0
    /\ last.line \in Pins(s)
    /\ Mode(s, last.line) = STM32_GPIO_MODE_OUTPUT
    /\ notified = << <<last.line, Bit(s.odr, last.line)>> >>
    /\ Bit(s.idr, last.line) = Bit(s.odr, last.line)
    /\ Bit(s.in, last.line) # Bit(s.odr, last.line)
    /\ last.line \notin s.in_mask

====
